---- MODULE Spec2Model ----
(***************************************************************************)
(* A model of tools/scene-validator/src/main.py: the ValidationResult      *)
(* accumulator and SceneValidator.validate with the three rule checks, the *)
(* optional Gemini pass and the top-level exception handler.               *)
(*                                                                         *)
(* Python values are tagged records, strings that the code inspects are    *)
(* sequences of one-character strings, and formatted messages are records  *)
(* holding the message kind and the values substituted into it.            *)
(***************************************************************************)
EXTENDS Integers, Sequences, FiniteSets, TLC

\* Bounds of the exploration.
MaxElems == 2
MaxCalls == 3

----------------------------------------------------------------------------
\* Python / JSON values.

None == [t |-> "None"]
Num(n) == [t |-> "num", n |-> n]
Str(s) == [t |-> "str", s |-> s]
\* A str the code only compares or prints (a type, an id), kept whole.
Sym(a) == [t |-> "str", a |-> a]
List(xs) == [t |-> "list", items |-> xs]
Dict(d) == [t |-> "dict", d |-> d]

\* A key a dict literal leaves out.
Absent == [t |-> "absent"]

\* The dict holding the keys of record r whose value is not Absent.
MkDict(r) == Dict([k \in {x \in DOMAIN r : r[x] # Absent} |-> r[k]])

\* The characters of the keys the code looks up, for `key in <str>`.
Chars(key) ==
    CASE key = "id" -> <<"i", "d">>
      [] key = "name" -> <<"n", "a", "m", "e">>
      [] key = "duration" -> <<"d", "u", "r", "a", "t", "i", "o", "n">>
      [] key = "elements" -> <<"e", "l", "e", "m", "e", "n", "t", "s">>
      [] key = "type" -> <<"t", "y", "p", "e">>
      [] OTHER -> <<"?">>

IsSubstring(a, b) ==
    \E i \in 0..(Len(b) - Len(a)) : SubSeq(b, i + 1, i + Len(a)) = a

\* Python truthiness: `not v`.
Falsy(v) ==
    CASE v.t = "None" -> TRUE
      [] v.t = "num" -> v.n = 0
      [] v.t = "str" -> IF "s" \in DOMAIN v THEN v.s = <<>> ELSE v.a = ""
      [] v.t = "list" -> v.items = <<>>
      [] v.t = "dict" -> DOMAIN v.d = {}
      [] OTHER -> FALSE

\* `key in v` for a string key: "yes", "no" or the exception it raises.
In(key, v) ==
    CASE v.t = "dict" -> IF key \in DOMAIN v.d THEN "yes" ELSE "no"
      [] v.t = "list" ->
            IF \E i \in DOMAIN v.items : v.items[i] = Sym(key)
            THEN "yes" ELSE "no"
      [] v.t = "str" ->
            IF "s" \in DOMAIN v
            THEN IF IsSubstring(Chars(key), v.s) THEN "yes" ELSE "no"
            ELSE IF v.a = key THEN "yes" ELSE "no"
      [] OTHER -> "TypeError"

Whitespace == {" ", "\t", "\n", "\r"}

RECURSIVE LStrip(_)
LStrip(s) ==
    IF s # <<>> /\ Head(s) \in Whitespace THEN LStrip(Tail(s)) ELSE s

RECURSIVE RStrip(_)
RStrip(s) ==
    IF s # <<>> /\ s[Len(s)] \in Whitespace
    THEN RStrip(SubSeq(s, 1, Len(s) - 1))
    ELSE s

\* str.strip()
Strip(s) == RStrip(LStrip(s))

StartsWith(s, p) == Len(s) >= Len(p) /\ SubSeq(s, 1, Len(p)) = p

\* An exception in flight: its class and str(e).
Exc(type, msg) == [type |-> type, msg |-> msg]

\* The classes `except Exception` catches among those the model raises.
ExceptionClasses ==
    {"TypeError", "AttributeError", "KeyError", "PermissionError",
     "JSONDecodeError"}

----------------------------------------------------------------------------
\* ValidationResult

ValidationResult ==
    [valid |-> TRUE, issues |-> <<>>, warnings |-> <<>>,
     suggestions |-> <<>>, scene_data |-> None]

\* add_issue without `self.valid = False`.
add_issue_keeps_valid(r, issue) ==
    [r EXCEPT !.issues = Append(@, issue)]

add_issue(r, issue) ==
    [r EXCEPT !.valid = FALSE, !.issues = Append(@, issue)]

add_warning(r, warning) ==
    [r EXCEPT !.warnings = Append(@, warning)]

add_suggestion(r, suggestion) ==
    [r EXCEPT !.suggestions = Append(@, suggestion)]

RECURSIVE add_suggestions(_, _)
add_suggestions(r, ss) ==
    IF ss = <<>> THEN r
    ELSE add_suggestions(add_suggestion(r, Head(ss)), Tail(ss))

----------------------------------------------------------------------------
\* Configuration

\* Program constants of default_config.
DefaultMaxElements == 50
DefaultMinDuration == 1

RuleOptions ==
    {"required_fields", "allowed_element_types", "max_elements_per_scene",
     "min_scene_duration"}

default_config ==
    [validation_rules |->
        [required_fields |-> <<"id", "name", "duration", "elements">>,
         allowed_element_types |->
            <<"character", "prop", "environment", "effect">>,
         max_elements_per_scene |-> DefaultMaxElements,
         min_scene_duration |-> DefaultMinDuration],
     gemini_api |-> [use_gemini |-> TRUE, model_name |-> "gemini-pro"]]

\* What a path holds: no file, a file that cannot be opened, a file json.load
\* rejects, or a file holding the JSON value v.
NotFound == [t |-> "ENOENT"]
Unreadable == [t |-> "EACCES"]
Malformed == [t |-> "malformed"]
Parsed(v) == [t |-> "json", v |-> v]

NoPath == ""
ConfigPath == "config.json"

_load_config(config_path, fs) ==
    IF config_path = NoPath THEN default_config
    ELSE IF fs[config_path].t = "json" THEN fs[config_path].v
    ELSE default_config

\* self.gemini_available after _setup_gemini_api: api_key is whether
\* GEMINI_API_KEY is set, configure_ok whether genai accepted it.
_setup_gemini_api(cfg, api_key, configure_ok) ==
    LET use_gemini ==
            IF "gemini_api" \in DOMAIN cfg
            THEN IF "use_gemini" \in DOMAIN cfg.gemini_api
                 THEN cfg.gemini_api.use_gemini
                 ELSE FALSE
            ELSE FALSE
    IN  IF use_gemini
        THEN IF ~api_key THEN FALSE
             ELSE configure_ok /\ "model_name" \in DOMAIN cfg.gemini_api
        ELSE FALSE

\* self.config["validation_rules"][option]: the value, or the KeyError.
Rule(cfg, option) ==
    IF "validation_rules" \notin DOMAIN cfg
    THEN [ok |-> FALSE, exc |-> Exc("KeyError", "validation_rules")]
    ELSE IF option \notin DOMAIN cfg.validation_rules
    THEN [ok |-> FALSE, exc |-> Exc("KeyError", option)]
    ELSE [ok |-> TRUE, v |-> cfg.validation_rules[option]]

----------------------------------------------------------------------------
\* _parse_gemini_response

\* The bullet character U+2022, written as a name.
Bullet == "BULLET"

RECURSIVE Split(_, _)
\* str.split(c)
Split(s, c) ==
    IF \A i \in DOMAIN s : s[i] # c THEN <<s>>
    ELSE LET i == CHOOSE j \in DOMAIN s :
                    s[j] = c /\ \A k \in 1..(j - 1) : s[k] # c
         IN  <<SubSeq(s, 1, i - 1)>> \o Split(SubSeq(s, i + 1, Len(s)), c)

\* str.split(c, 1)
Split1(s, c) ==
    IF \A i \in DOMAIN s : s[i] # c THEN <<s>>
    ELSE LET i == CHOOSE j \in DOMAIN s :
                    s[j] = c /\ \A k \in 1..(j - 1) : s[k] # c
         IN  <<SubSeq(s, 1, i - 1), SubSeq(s, i + 1, Len(s))>>

\* The suggestions one line of the response yields (none or one).
ParseLine(raw) ==
    LET line == Strip(raw) IN
    IF \/ StartsWith(line, <<Bullet>>)
       \/ StartsWith(line, <<"-">>)
       \/ StartsWith(line, <<"*">>)
    THEN LET suggestion == Strip(SubSeq(line, 2, Len(line)))
         IN  IF suggestion # <<>> THEN <<suggestion>> ELSE <<>>
    ELSE IF \/ StartsWith(line, <<"1", ".">>)
            \/ StartsWith(line, <<"2", ".">>)
            \/ StartsWith(line, <<"3", ".">>)
    THEN LET parts == Split1(line, ".")
         IN  IF Len(parts) > 1
             THEN LET suggestion == Strip(parts[2])
                  IN  IF suggestion # <<>> THEN <<suggestion>> ELSE <<>>
             ELSE <<>>
    ELSE <<>>

RECURSIVE ParseLines(_)
ParseLines(lines) ==
    IF lines = <<>> THEN <<>>
    ELSE ParseLine(Head(lines)) \o ParseLines(Tail(lines))

_parse_gemini_response(response_text) ==
    ParseLines(Split(response_text, "\n"))

\* What the service does when asked: the request raises, the response has no
\* usable text, or the response carries the text s.
Unreachable == [t |-> "raise"]
NoText == [t |-> "notext"]
Text(s) == [t |-> "text", s |-> s]

----------------------------------------------------------------------------
\* The messages the code formats, with the values substituted into them.

SceneNotFound(path) == [k |-> "Scene file not found", path |-> path]
InvalidJSON == [k |-> "Invalid JSON in scene file"]
Unexpected(msg) == [k |-> "Unexpected error during validation", msg |-> msg]
MissingField(field) == [k |-> "Missing required field", field |-> field]
DurationWarning(duration, min) ==
    [k |-> "Scene duration is less than minimum recommended",
     duration |-> duration, min |-> min]
EmptyName == [k |-> "Scene has an empty name"]
ElementsNotList == [k |-> "Scene elements must be a list"]
TooManyElements(n, max) ==
    [k |-> "Scene has n elements, which exceeds the recommended maximum",
     n |-> n, max |-> max]
ElementNotObject(i) == [k |-> "Element is not a valid object", i |-> i]
ElementMissingType(i) == [k |-> "Element is missing a type", i |-> i]
ElementInvalidType(i, type, allowed) ==
    [k |-> "Element has invalid type", i |-> i, type |-> type,
     allowed |-> allowed]
ElementMissingID(i) == [k |-> "Element is missing an ID", i |-> i]
GeminiFailed(msg) ==
    [k |-> "Could not perform Gemini-based validation", msg |-> msg]

----------------------------------------------------------------------------
\* The rule checks, as functions of the configuration, the scene data and the
\* result so far. Each yields the result afterwards and the exception that
\* left the check, if one did.

NoExc == Exc("none", "")
Ok(r) == [r |-> r, exc |-> NoExc]
Raised(r, e) == [r |-> r, exc |-> e]

\* v[key] for a string key that `key in v` found.
Subscript(v, key) ==
    IF v.t = "dict" THEN [ok |-> TRUE, v |-> v.d[key]]
    ELSE [ok |-> FALSE, exc |-> Exc("TypeError", "indices must be integers")]

\* v < min for a number min.
LessThan(v, min) ==
    IF v.t = "num" THEN [ok |-> TRUE, v |-> v.n < min]
    ELSE [ok |-> FALSE, exc |-> Exc("TypeError", "'<' not supported")]

\* not v.strip()
StripsToEmpty(v) ==
    IF v.t # "str"
    THEN [ok |-> FALSE, exc |-> Exc("AttributeError", "no attribute 'strip'")]
    ELSE [ok |-> TRUE,
          v |-> IF "s" \in DOMAIN v THEN Strip(v.s) = <<>> ELSE v.a = ""]

\* One iteration of the loop of _validate_required_fields.
RequiredFieldStep(field, sd, r) ==
    LET in == In(field, sd) IN
    IF in = "TypeError"
    THEN Raised(r, Exc("TypeError", "argument is not iterable"))
    ELSE IF in = "no" THEN Ok(add_issue(r, MissingField(field)))
    ELSE Ok(r)

\* The scene duration check of _validate_scene_structure.
DurationCheck(cfg, sd, r) ==
    LET min_duration == Rule(cfg, "min_scene_duration")
        in == In("duration", sd)
        value == Subscript(sd, "duration")
        less == LessThan(value.v, min_duration.v)
    IN  IF ~min_duration.ok THEN Raised(r, min_duration.exc)
        ELSE IF in = "TypeError"
        THEN Raised(r, Exc("TypeError", "argument is not iterable"))
        ELSE IF in = "no" THEN Ok(r)
        ELSE IF ~value.ok THEN Raised(r, value.exc)
        ELSE IF ~less.ok THEN Raised(r, less.exc)
        ELSE IF less.v
        THEN Ok(add_warning(r, DurationWarning(value.v, min_duration.v)))
        ELSE Ok(r)

\* The empty name check of _validate_scene_structure.
NameCheck(sd, r) ==
    LET in == In("name", sd)
        value == Subscript(sd, "name")
        empty == StripsToEmpty(value.v)
    IN  IF in = "TypeError"
        THEN Raised(r, Exc("TypeError", "argument is not iterable"))
        ELSE IF in = "no" THEN Ok(r)
        ELSE IF ~value.ok THEN Raised(r, value.exc)
        ELSE IF ~empty.ok THEN Raised(r, empty.exc)
        ELSE IF empty.v THEN Ok(add_warning(r, EmptyName))
        ELSE Ok(r)

_validate_scene_structure(cfg, sd, r) ==
    LET first == DurationCheck(cfg, sd, r)
    IN  IF first.exc # NoExc THEN first ELSE NameCheck(sd, first.r)

\* _validate_elements up to its loop: `loop` says whether the loop is entered.
ElementsEntry(cfg, sd, r) ==
    LET in == In("elements", sd)
        elements == Subscript(sd, "elements")
        max_elements == Rule(cfg, "max_elements_per_scene")
        allowed_types == Rule(cfg, "allowed_element_types")
        n == Len(elements.v.items)
        counted == IF n > max_elements.v
                   THEN add_warning(r, TooManyElements(n, max_elements.v))
                   ELSE r
    IN  IF in = "TypeError"
        THEN [loop |-> FALSE, r |-> r,
              exc |-> Exc("TypeError", "argument is not iterable")]
        ELSE IF in = "no" THEN [loop |-> FALSE, r |-> r, exc |-> NoExc]
        ELSE IF ~elements.ok
        THEN [loop |-> FALSE, r |-> r, exc |-> elements.exc]
        ELSE IF elements.v.t # "list"
        THEN [loop |-> FALSE, r |-> add_issue(r, ElementsNotList),
              exc |-> NoExc]
        ELSE IF ~max_elements.ok
        THEN [loop |-> FALSE, r |-> r, exc |-> max_elements.exc]
        ELSE IF ~allowed_types.ok
        THEN [loop |-> FALSE, r |-> counted, exc |-> allowed_types.exc]
        ELSE [loop |-> TRUE, r |-> counted, exc |-> NoExc]

InSeq(x, xs) == \E j \in DOMAIN xs : xs[j] = x

\* The type of an element as the allowed types name it.
TypeName(v) == IF v.t = "str" /\ "a" \in DOMAIN v THEN v.a ELSE "?"

\* One iteration of the loop of _validate_elements, on element i (from 0).
ElementStep(allowed_types, element, i, r) ==
    IF element.t # "dict" THEN add_issue(r, ElementNotObject(i))
    ELSE IF "type" \notin DOMAIN element.d
    THEN add_issue(r, ElementMissingType(i))
    ELSE LET typed ==
                IF ~InSeq(TypeName(element.d["type"]), allowed_types)
                THEN add_issue(r, ElementInvalidType(
                        i, element.d["type"], allowed_types))
                ELSE r
         IN  IF "id" \notin DOMAIN element.d
             THEN add_warning(typed, ElementMissingID(i))
             ELSE typed

\* _load_scene_data without its handler of json.JSONDecodeError.
_load_scene_data_json_uncaught(file, path, r) ==
    CASE file.t = "ENOENT" ->
            [r |-> add_issue(r, SceneNotFound(path)), data |-> None,
             exc |-> NoExc]
      [] file.t = "malformed" ->
            [r |-> r, data |-> None,
             exc |-> Exc("JSONDecodeError", "Expecting value")]
      [] file.t = "EACCES" ->
            [r |-> r, data |-> None,
             exc |-> Exc("PermissionError", "Permission denied")]
      [] OTHER -> [r |-> r, data |-> file.v, exc |-> NoExc]

\* _load_scene_data on a path holding `file`: the result afterwards, the
\* value returned and the exception that left it, if one did.
_load_scene_data(file, path, r) ==
    CASE file.t = "ENOENT" ->
            [r |-> add_issue(r, SceneNotFound(path)), data |-> None,
             exc |-> NoExc]
      [] file.t = "malformed" ->
            [r |-> add_issue(r, InvalidJSON), data |-> None, exc |-> NoExc]
      [] file.t = "EACCES" ->
            [r |-> r, data |-> None,
             exc |-> Exc("PermissionError", "Permission denied")]
      [] OTHER -> [r |-> r, data |-> file.v, exc |-> NoExc]

\* A handler that records the failure of the service as an issue.
_perform_gemini_validation_issue(service, r) ==
    CASE service.t = "raise" ->
            add_issue(r, GeminiFailed("service unreachable"))
      [] service.t = "notext" ->
            add_issue(r, GeminiFailed("response has no text"))
      [] OTHER -> add_suggestions(r, _parse_gemini_response(service.s))

\* _perform_gemini_validation against a service that behaves as `service`.
_perform_gemini_validation(service, r) ==
    CASE service.t = "raise" ->
            add_warning(r, GeminiFailed("service unreachable"))
      [] service.t = "notext" ->
            add_warning(r, GeminiFailed("response has no text"))
      [] OTHER -> add_suggestions(r, _parse_gemini_response(service.s))

\* A handler that names one class: `except TypeError`.
CaughtTypeErrorOnly(e) == e.type = "TypeError"

\* Whether the handler of validate, `except Exception`, catches e.
Caught(e) == e.type \in ExceptionClasses

----------------------------------------------------------------------------
\* The inputs explored.

IdValues == {Absent, Sym("s1")}
NameValues == {Absent, Str(<<"a">>), Str(<<" ">>), Num(7)}
DurationValues == {Absent, Num(0), Num(5), Str(<<"5">>)}

ElementValues ==
    {Sym("x")} \cup
    {MkDict([type |-> ty, id |-> id]) :
        ty \in {Absent, Sym("character"), Sym("vehicle")},
        id \in {Absent, Sym("c1")}}

ElementLists == UNION {[1..n -> ElementValues] : n \in 0..MaxElems}

\* Scenes varying which fields are present and of what type.
FieldScenes ==
    {MkDict([id |-> id, name |-> name, duration |-> duration,
             elements |-> elements]) :
        id \in IdValues, name \in NameValues, duration \in DurationValues,
        elements \in {Absent, Sym("x"), List(<<>>),
                      List(<<MkDict([type |-> Sym("prop"),
                                     id |-> Sym("p1")])>>)}}

\* Scenes varying the elements.
ElementScenes ==
    {MkDict([id |-> Sym("s1"), name |-> Str(<<"a">>), duration |-> Num(5),
             elements |-> List(es)]) : es \in ElementLists}

\* JSON documents that are not a mapping of scene fields.
OtherValues ==
    {None, Num(0), Num(5), Str(<<>>), Str(<<"x">>), Str(Chars("duration")),
     List(<<>>), List(<<Num(5)>>), Dict([extra |-> Num(1)])}

SceneFiles ==
    {NotFound, Unreadable, Malformed} \cup
    {Parsed(v) : v \in FieldScenes \cup ElementScenes \cup OtherValues}

\* A few scene files, for the runs over several paths or configurations.
FewSceneFiles ==
    {NotFound, Malformed,
     Parsed(Dict(<<>>)),
     Parsed(MkDict([id |-> Sym("s1"), name |-> Str(<<"a">>),
                    duration |-> Num(5),
                    elements |-> List(<<MkDict([type |-> Sym("character"),
                                                id |-> Sym("c1")])>>)])),
     Parsed(MkDict([id |-> Absent, name |-> Str(<<" ">>),
                    duration |-> Num(0),
                    elements |-> List(<<MkDict([type |-> Sym("vehicle"),
                                                id |-> Absent]),
                                        Sym("x")>>)])),
     Parsed(MkDict([id |-> Sym("s1"), name |-> Absent,
                    duration |-> Str(<<"5">>),
                    elements |-> Sym("x")]))}

\* Values a configuration file gives the rule options.
FileRules ==
    [required_fields |-> <<"elements", "id">>,
     allowed_element_types |-> <<"character">>,
     max_elements_per_scene |-> 1,
     min_scene_duration |-> 10,
     unknown_option |-> 1]

Restrict(f, keys) == [k \in keys |-> f[k]]

\* A configuration file overriding every rule option, plus an unknown one.
FullConfigFile == Parsed([validation_rules |-> FileRules])

\* A configuration file that names no allowed_element_types.
PartialConfigFile ==
    Parsed([validation_rules |->
        Restrict(FileRules, {"required_fields", "max_elements_per_scene",
                             "min_scene_duration"})])

\* Configuration files naming any subset of the rule options.
ConfigFiles ==
    {NotFound, Malformed, Parsed([reporting |-> [format |-> "json"]])} \cup
    {Parsed([validation_rules |-> Restrict(FileRules, opts)]) :
        opts \in SUBSET DOMAIN FileRules}

ResponseTexts ==
    {<<"-", " ", "a">>,
     <<"a", "-", "b">>,
     <<"-">>,
     <<" ", Bullet, "a", " ">>,
     <<"1", ".", " ", "a", "\n", "*", "b", "\n", "c">>,
     <<"2", ".", "\n", "3", ".", "5">>,
     <<"4", ".", " ", "a">>,
     <<"1", "2", ".", "a">>}

Services == {Unreachable, NoText} \cup {Text(s) : s \in ResponseTexts}

----------------------------------------------------------------------------
\* State

VARIABLES
    files,            \* the file system: what each path holds
    config,           \* self.config
    gemini_available, \* self.gemini_available
    gemini_model,     \* how the service behind self.gemini_model answers:
                      \* one behaviour per run, each an initial state
    pc,               \* where validate is: idle between calls
    scene_path,       \* the argument of the call in progress
    scene_data,       \* the local scene_data
    result,           \* the local result: a reference into heap
    heap,             \* every ValidationResult created so far
    idx,              \* the index of the loop in progress
    err,              \* the exception in flight
    invoked,          \* the steps the call in progress has invoked, in order
    returned          \* one entry per call that returned

vars ==
    <<files, config, gemini_available, gemini_model, pc, scene_path,
      scene_data, result, heap, idx, err, invoked, returned>>

ScenePaths == DOMAIN files \ {ConfigPath}

\* The validator as constructed with config_path over a file system holding
\* config_file at ConfigPath and scene files at the other paths.
InitWith(config_paths, config_files, scene_paths, scene_files) ==
    \E config_path \in config_paths, config_file \in config_files,
       scenes \in [scene_paths -> scene_files],
       api_key \in BOOLEAN, configure_ok \in BOOLEAN, service \in Services :
        /\ config_path = NoPath => config_file = NotFound
        /\ files = [p \in {ConfigPath} \cup scene_paths |->
                        IF p = ConfigPath THEN config_file ELSE scenes[p]]
        /\ config = _load_config(config_path, files)
        /\ gemini_available =
                _setup_gemini_api(config, api_key, configure_ok)
        /\ gemini_model = IF gemini_available THEN service ELSE None
        /\ pc = "idle"
        /\ scene_path = NoPath
        /\ scene_data = None
        /\ result = 0
        /\ heap = <<>>
        /\ idx = 0
        /\ err = NoExc
        /\ invoked = <<>>
        /\ returned = <<>>

Init ==
    InitWith({NoPath, ConfigPath},
             {NotFound, FullConfigFile, PartialConfigFile},
             {"scene.json"}, SceneFiles)

\* Two scene paths, a few scene files.
InitRuns ==
    InitWith({NoPath, ConfigPath}, {NotFound, FullConfigFile},
             {"a.json", "b.json"}, FewSceneFiles)

\* Every configuration file, a few scene files.
InitConfig ==
    InitWith({NoPath, ConfigPath}, ConfigFiles, {"scene.json"}, FewSceneFiles)

----------------------------------------------------------------------------
\* validate, step by step

\* A validator that keeps one result object and hands it to every call.
AllocateShared(h) ==
    IF h = <<>> THEN [heap |-> <<ValidationResult>>, ref |-> 1]
    ELSE [heap |-> h, ref |-> 1]

\* result = ValidationResult(): a new object each call.
Allocate(h) == [heap |-> Append(h, ValidationResult), ref |-> Len(h) + 1]

Store(r) == heap' = [heap EXCEPT ![result] = r]

\* Where validate goes after the rule checks.
AfterChecks == IF gemini_available THEN "gemini" ELSE "return"

\* A check ended: with exception exc, or normally, going on at `next`.
Continue(exc, next) ==
    IF exc # NoExc THEN pc' = "except" /\ err' = exc
    ELSE pc' = next /\ err' = err

Validate ==
    /\ pc = "idle"
    /\ Len(returned) < MaxCalls
    /\ \E path \in ScenePaths :
        /\ scene_path' = path
        /\ heap' = Allocate(heap).heap
        /\ result' = Allocate(heap).ref
    /\ pc' = "load"
    /\ invoked' = <<>>
    /\ scene_data' = None
    /\ idx' = 0
    /\ err' = NoExc
    /\ UNCHANGED <<files, config, gemini_available, gemini_model, returned>>

\* The call of _load_scene_data, `if not scene_data: return result`, and
\* the snapshot.
LoadSceneData ==
    /\ pc = "load"
    /\ LET out == _load_scene_data(files[scene_path], scene_path,
                                   heap[result])
       IN  IF out.exc # NoExc
           THEN /\ pc' = "except"
                /\ err' = out.exc
                /\ UNCHANGED <<scene_data, heap, invoked>>
           ELSE /\ scene_data' = out.data
                /\ err' = err
                /\ IF Falsy(out.data)
                   THEN /\ Store(out.r)
                        /\ pc' = "return"
                        /\ UNCHANGED invoked
                   ELSE /\ Store([out.r EXCEPT !.scene_data = out.data])
                        /\ pc' = "required"
                        /\ invoked' = Append(invoked, "required")
    /\ idx' = 0
    /\ UNCHANGED <<files, config, gemini_available, gemini_model, scene_path,
                   result, returned>>

\* _validate_required_fields: the lookup of the rule, then one field a step.
ValidateRequiredFields ==
    /\ pc = "required"
    /\ LET required_fields == Rule(config, "required_fields") IN
       IF ~required_fields.ok
       THEN /\ Continue(required_fields.exc, "structure")
            /\ UNCHANGED <<heap, idx, invoked>>
       ELSE IF idx >= Len(required_fields.v)
       THEN /\ pc' = "structure"
            /\ invoked' = Append(invoked, "structure")
            /\ idx' = 0
            /\ UNCHANGED <<heap, err>>
       ELSE LET out == RequiredFieldStep(required_fields.v[idx + 1],
                                         scene_data, heap[result])
            IN  /\ Store(out.r)
                /\ Continue(out.exc, "required")
                /\ idx' = idx + 1
                /\ UNCHANGED invoked
    /\ UNCHANGED <<files, config, gemini_available, gemini_model, scene_path,
                   scene_data, result, returned>>

ValidateSceneStructure ==
    /\ pc = "structure"
    /\ LET out == _validate_scene_structure(config, scene_data, heap[result])
       IN  /\ Store(out.r)
           /\ Continue(out.exc, "elements")
           /\ invoked' = IF out.exc = NoExc
                         THEN Append(invoked, "elements") ELSE invoked
    /\ UNCHANGED <<files, config, gemini_available, gemini_model, scene_path,
                   scene_data, result, idx, returned>>

\* _validate_elements up to its loop.
ValidateElements ==
    /\ pc = "elements"
    /\ LET out == ElementsEntry(config, scene_data, heap[result])
       IN  /\ Store(out.r)
           /\ Continue(out.exc, IF out.loop THEN "element" ELSE AfterChecks)
    /\ idx' = 0
    /\ UNCHANGED <<files, config, gemini_available, gemini_model, scene_path,
                   scene_data, result, invoked, returned>>

\* The loop of _validate_elements, one element a step.
ValidateElement ==
    /\ pc = "element"
    /\ LET elements == scene_data.d["elements"].items IN
       IF idx >= Len(elements)
       THEN pc' = AfterChecks /\ UNCHANGED <<heap, idx>>
       ELSE /\ Store(ElementStep(Rule(config, "allowed_element_types").v,
                                 elements[idx + 1], idx, heap[result]))
            /\ idx' = idx + 1
            /\ pc' = "element"
    /\ UNCHANGED <<files, config, gemini_available, gemini_model, scene_path,
                   scene_data, result, err, invoked, returned>>

PerformGeminiValidation ==
    /\ pc = "gemini"
    /\ Store(_perform_gemini_validation(gemini_model, heap[result]))
    /\ pc' = "return"
    /\ invoked' = Append(invoked, "gemini")
    /\ UNCHANGED <<files, config, gemini_available, gemini_model, scene_path,
                   scene_data, result, idx, err, returned>>

\* except Exception as e: result.add_issue(...)
HandleException ==
    /\ pc = "except"
    /\ IF Caught(err)
       THEN /\ Store(add_issue(heap[result], Unexpected(err.msg)))
            /\ pc' = "return"
       ELSE pc' = "propagated" /\ UNCHANGED heap
    /\ UNCHANGED <<files, config, gemini_available, gemini_model, scene_path,
                   scene_data, result, idx, err, invoked, returned>>

\* return result
Return ==
    /\ pc = "return"
    /\ returned' = Append(returned,
            [path |-> scene_path, result |-> result, invoked |-> invoked])
    /\ pc' = "idle"
    /\ UNCHANGED <<files, config, gemini_available, gemini_model, scene_path,
                   scene_data, result, heap, idx, err, invoked>>

Next ==
    \/ Validate
    \/ LoadSceneData
    \/ ValidateRequiredFields
    \/ ValidateSceneStructure
    \/ ValidateElements
    \/ ValidateElement
    \/ PerformGeminiValidation
    \/ HandleException
    \/ Return

Spec == Init /\ [][Next]_vars
SpecRuns == InitRuns /\ [][Next]_vars
SpecConfig == InitConfig /\ [][Next]_vars

----------------------------------------------------------------------------
\* Properties

\* The outcome the i-th returned call handed back, and the file it read.
Outcome(i) == heap[returned[i].result]
Source(i) == files[returned[i].path]

IsUnexpected(m) == m.k = "Unexpected error during validation"
IsMissingField(m) == m.k = "Missing required field"

Texts(o) ==
    [valid |-> o.valid, issues |-> o.issues, warnings |-> o.warnings,
     suggestions |-> o.suggestions]

\* valid is true exactly when no issue has been added, in every result.
ValidIffNoIssues ==
    \A o \in DOMAIN heap : heap[o].valid = (heap[o].issues = <<>>)

\* A step creates results valid and empty, and never makes an invalid result
\* valid again.
ValidStartsTrueAndNeverReverts ==
    /\ \A o \in DOMAIN heap' \ DOMAIN heap : heap'[o] = ValidationResult
    /\ \A o \in DOMAIN heap : ~heap[o].valid => ~heap'[o].valid

\* C1: at every point a ValidationResult can be observed, valid is true
\* exactly when issues is empty; valid starts true and, once an issue has
\* been added, never becomes true again.
C1_ValidTracksIssues ==
    []ValidIffNoIssues /\ [][ValidStartsTrueAndNeverReverts]_vars

\* C1's case: a returned outcome that took two issues and then a warning.
C1_Witness ==
    /\ pc = "idle"
    /\ \E i \in DOMAIN returned :
        /\ ~Outcome(i).valid
        /\ Len(Outcome(i).issues) >= 2
        /\ Outcome(i).warnings # <<>>

\* The required fields absent from the mapping d, in configured order.
MissingFields(required_fields, d) ==
    LET absent(f) == f \notin DOMAIN d
    IN  SelectSeq(required_fields, absent)

\* C2 as claimed: for every scene record parsed from the scene file (a mapping
\* holding any subset of the required fields, including none), the returned
\* outcome holds one "Missing required field" issue per absent required
\* field, in configured order, and is invalid when a field is absent.
C2_MissingFieldsReported ==
    \A i \in DOMAIN returned :
        (Source(i).t = "json" /\ Source(i).v.t = "dict") =>
            LET missing == MissingFields(Rule(config, "required_fields").v,
                                         Source(i).v.d)
            IN  /\ SelectSeq(Outcome(i).issues, IsMissingField) =
                        [j \in DOMAIN missing |-> MissingField(missing[j])]
                /\ missing # <<>> => ~Outcome(i).valid

\* C3: when the scene file is not found or is malformed, validate returns at
\* once with exactly one issue describing the failure, valid = false, no
\* scene-data snapshot and no finding of a rule check or the advisory step.
C3_LoadFailureOutcome ==
    \A i \in DOMAIN returned :
        Source(i).t \in {"ENOENT", "malformed"} =>
            /\ returned[i].invoked = <<>>
            /\ Outcome(i) =
                [valid |-> FALSE,
                 issues |-> <<IF Source(i).t = "ENOENT"
                              THEN SceneNotFound(returned[i].path)
                              ELSE InvalidJSON>>,
                 warnings |-> <<>>,
                 suggestions |-> <<>>,
                 scene_data |-> None]

\* C3's case: a call on a malformed scene file has returned.
C3_Witness ==
    /\ pc = "idle"
    /\ \E i \in DOMAIN returned : Source(i).t = "malformed"

\* Inputs on which a step of validate fails without a local handler, under a
\* configuration naming the required fields and the minimum duration: a scene
\* file that cannot be opened, a JSON number, a duration that is not a
\* number, a name that is not a string, a list of elements when the
\* configuration names no allowed types.
FailsUnhandled(file) ==
    \/ file.t = "EACCES"
    \/ /\ file.t = "json"
       /\ \/ file.v.t = "num" /\ file.v.n # 0
          \/ /\ file.v.t = "dict"
             /\ \/ /\ "duration" \in DOMAIN file.v.d
                   /\ file.v.d["duration"].t # "num"
                \/ /\ "name" \in DOMAIN file.v.d
                   /\ file.v.d["name"].t # "str"
                \/ /\ "elements" \in DOMAIN file.v.d
                   /\ file.v.d["elements"].t = "list"
                   /\ "allowed_element_types"
                        \notin DOMAIN config.validation_rules

\* C4: validate never raises to its caller; a failure that is not handled
\* locally adds exactly one "Unexpected error during validation" issue, and
\* the returned outcome is invalid.
C4_NeverRaises ==
    /\ pc # "propagated"
    /\ \A i \in DOMAIN returned :
        LET unexpected == SelectSeq(Outcome(i).issues, IsUnexpected)
        IN  /\ Len(unexpected) <= 1
            /\ Len(unexpected) = 1 =>
                /\ ~Outcome(i).valid
                /\ IsUnexpected(Outcome(i).issues[Len(Outcome(i).issues)])
            /\ FailsUnhandled(Source(i)) => Len(unexpected) = 1

\* C4's case: a call whose structure check raised has returned.
C4_Witness ==
    /\ pc = "idle"
    /\ \E i \in DOMAIN returned :
        /\ returned[i].invoked = <<"required", "structure">>
        /\ Len(SelectSeq(Outcome(i).issues, IsUnexpected)) = 1
        /\ Len(Outcome(i).issues) >= 2

\* The advisory step is taken against a service that fails.
AdvisoryFails ==
    pc = "gemini" /\ gemini_model.t \in {"raise", "notext"}

\* C5: when the advisory step runs and fails, issues and valid stay what they
\* were, warnings gain exactly one warning describing the failure, and
\* validate goes on to return the outcome.
C5_AdvisoryFailureIsAWarning ==
    [][AdvisoryFails =>
        /\ heap'[result].issues = heap[result].issues
        /\ heap'[result].valid = heap[result].valid
        /\ Len(heap'[result].warnings) = Len(heap[result].warnings) + 1
        /\ SubSeq(heap'[result].warnings, 1, Len(heap[result].warnings)) =
                heap[result].warnings
        /\ heap'[result].warnings[Len(heap'[result].warnings)].k =
                "Could not perform Gemini-based validation"
        /\ heap'[result].suggestions = heap[result].suggestions
        /\ pc' = "return"]_vars

\* C5's case: the advisory step failed on a result that already held an
\* issue and a warning, and the call returned.
C5_Witness ==
    /\ pc = "idle"
    /\ \E i \in DOMAIN returned :
        /\ returned[i].invoked # <<>>
        /\ returned[i].invoked[Len(returned[i].invoked)] = "gemini"
        /\ gemini_model.t = "raise"
        /\ Outcome(i).issues # <<>>
        /\ Len(Outcome(i).warnings) >= 2

\* The rule options the configuration file names.
FileOptions ==
    IF files[ConfigPath].t = "json"
    THEN IF "validation_rules" \in DOMAIN files[ConfigPath].v
         THEN DOMAIN files[ConfigPath].v.validation_rules
         ELSE {}
    ELSE {}

\* C6 as claimed: the effective configuration has a value for each rule
\* option, the file's where the file names it and the built-in default
\* otherwise, and no configuration makes validate add an issue of its own.
C6_ConfigOverridesDefaults ==
    /\ \A option \in RuleOptions :
        /\ Rule(config, option).ok
        /\ Rule(config, option).v =
                IF option \in FileOptions
                THEN files[ConfigPath].v.validation_rules[option]
                ELSE default_config.validation_rules[option]
    /\ \A o \in DOMAIN heap : \A j \in DOMAIN heap[o].issues :
        IsUnexpected(heap[o].issues[j]) =>
            heap[o].issues[j].msg \notin RuleOptions \cup {"validation_rules"}

\* Two returned calls were on the same scene record.
SameRecord(i, j) ==
    \/ returned[i].path = returned[j].path
    \/ Source(i).t = "json" /\ Source(i) = Source(j)

\* With the advisory step disabled, calls on the same record returned the
\* same texts, each in an object of its own.
RunsAgree ==
    ~gemini_available =>
        \A i, j \in DOMAIN returned :
            /\ i # j => returned[i].result # returned[j].result
            /\ SameRecord(i, j) => Texts(Outcome(i)) = Texts(Outcome(j))

\* A step leaves every outcome already returned as it was.
ReturnedOutcomesFrozen ==
    ~gemini_available =>
        \A i \in DOMAIN returned : heap'[returned[i].result] = Outcome(i)

\* C7: with the advisory step disabled, after any sequence of validate calls
\* a call on a given scene record returns the same valid flag and the same
\* issues, warnings and suggestions as the first call on that record did, and
\* no later call changes an outcome returned earlier.
C7_RunsIndependent ==
    []RunsAgree /\ [][ReturnedOutcomesFrozen]_vars

\* C7's case: a record validated, another one validated, the first one again,
\* with findings to compare.
C7_Witness ==
    /\ ~gemini_available
    /\ Len(returned) = 3
    /\ returned[1].path = returned[3].path
    /\ returned[1].path # returned[2].path
    /\ Source(1) # Source(2)
    /\ Len(Outcome(1).issues) >= 2
    /\ Outcome(1).warnings # <<>>

\* C8 as claimed: in the loop of checkElements, every element already checked
\* that is a mapping without an id has its "missing an ID" warning, whatever
\* the type checks found, a missing type included.
C8_MissingIdAlwaysWarned ==
    pc = "element" =>
        \A i \in 0..(idx - 1) :
            LET element == scene_data.d["elements"].items[i + 1] IN
            (element.t = "dict" /\ "id" \notin DOMAIN element.d) =>
                InSeq(ElementMissingID(i), heap[result].warnings)

\* C9 as claimed: for every scene record loaded (here: every non-empty
\* mapping), validate invokes checkRequiredFields, checkStructure and
\* checkElements, each once and in that order, whatever the earlier checks
\* come across.
C9_AllChecksRun ==
    \A i \in DOMAIN returned :
        (/\ Source(i).t = "json"
         /\ Source(i).v.t = "dict"
         /\ DOMAIN Source(i).v.d # {}) =>
            /\ Len(returned[i].invoked) >= 3
            /\ SubSeq(returned[i].invoked, 1, 3) =
                    <<"required", "structure", "elements">>

Digits == {"0", "1", "2", "3", "4", "5", "6", "7", "8", "9"}

RECURSIVE DropDigits(_)
DropDigits(s) ==
    IF s # <<>> /\ Head(s) \in Digits THEN DropDigits(Tail(s)) ELSE s

\* The suggestion the claim gives a line: the text after a bullet marker, or
\* after a number followed by a period, trimmed, when it is not empty.
ClaimedLine(raw) ==
    LET line == Strip(raw)
        after ==
            IF line # <<>> /\ Head(line) \in {Bullet, "-", "*"}
            THEN <<Tail(line)>>
            ELSE IF /\ line # <<>>
                    /\ Head(line) \in Digits
                    /\ StartsWith(DropDigits(line), <<".">>)
            THEN <<Tail(DropDigits(line))>>
            ELSE <<>>
    IN  IF after # <<>> /\ Strip(after[1]) # <<>>
        THEN <<Strip(after[1])>>
        ELSE <<>>

RECURSIVE ClaimedLines(_)
ClaimedLines(lines) ==
    IF lines = <<>> THEN <<>>
    ELSE ClaimedLine(Head(lines)) \o ClaimedLines(Tail(lines))

\* C10 as claimed: the advisory response yields, in line order, one suggestion
\* for every line that begins with a bullet marker or with any number followed
\* by a period and has text after it, and these are the outcome's suggestions.
C10_SuggestionsParsed ==
    \A i \in DOMAIN returned :
        (/\ returned[i].invoked # <<>>
         /\ returned[i].invoked[Len(returned[i].invoked)] = "gemini"
         /\ gemini_model.t = "text") =>
            Outcome(i).suggestions =
                ClaimedLines(Split(gemini_model.s, "\n"))

====
